---- MODULE Spec2Model ----
(***************************************************************************)
(* Model of the OpenAPI -> API Gateway specification transformer of        *)
(* packages/open-api-gateway/src/construct/spec/api-gateway-integrations.ts *)
(* (prepareApiSpec and the helpers it calls).                               *)
(*                                                                         *)
(* Representation of the TypeScript values:                                *)
(*   - a JS object is a TLA+ function whose DOMAIN is its set of own keys; *)
(*     an optional property that is not given is a key that is absent;     *)
(*   - an object whose key order is observable by the code (spec.paths     *)
(*     and options.operationLookup, both walked with Object.entries) is    *)
(*     the sequence of its entries <<key, value>>, keys pairwise distinct; *)
(*   - strings are strings, template literals are \o concatenations;       *)
(*   - a call either returns a value or throws: Returned(v) / Thrown(m).   *)
(***************************************************************************)
EXTENDS Integers, Sequences, FiniteSets, TLC

VARIABLES
  spec,        \* the OpenAPIV3.Document handed to prepareApiSpec
  options,     \* the OpenApiOptions handed to prepareApiSpec
  result,      \* outcome of prepareApiSpec(scope, spec, options)
  recomposed   \* outcome of prepareApiSpec(scope, result, options)

vars == <<spec, options, result, recomposed>>

(***************************************************************************)
(* JavaScript object helpers                                               *)
(***************************************************************************)

\* {} : the object with no own keys
EmptyObject == [k \in {} |-> ""]

\* key in object / object.key !== undefined for the objects of this model
Has(object, key) == key \in DOMAIN object

\* { ...a, ...b } : the keys of both, b's value where both define a key
Spread(a, b) == b @@ a

\* Array.prototype.join
RECURSIVE Join(_, _)
Join(list, separator) ==
  IF Len(list) = 0 THEN ""
  ELSE IF Len(list) = 1 THEN list[1]
  ELSE list[1] \o separator \o Join(Tail(list), separator)

\* Object.fromEntries over a sequence of <<key, value>>: the last entry of a key wins
RECURSIVE FromEntries(_)
FromEntries(entries) ==
  IF Len(entries) = 0 THEN EmptyObject
  ELSE LET last == entries[Len(entries)]
       IN (last[1] :> last[2]) @@ FromEntries(SubSeq(entries, 1, Len(entries) - 1))

\* a call that returned value
Returned(value) == [status |-> "returned", value |-> value]

\* a call that threw Error(message)
Thrown(message) == [status |-> "thrown", message |-> message]

\* undefined, where the code uses it as a property key or inside a template
\* literal: both convert it to the string "undefined"
Undefined == "undefined"

(***************************************************************************)
(* Collaborators outside api-gateway-integrations.ts                       *)
(***************************************************************************)

\* Object.values(OpenAPIV3.HttpMethods), in declaration order
HttpMethods == <<"get", "put", "post", "delete", "options", "head", "patch", "trace">>

\* Cors.DEFAULT_HEADERS of aws-cdk-lib
DEFAULT_HEADERS ==
  <<"Content-Type", "X-Amz-Date", "Authorization", "X-Api-Key",
    "X-Amz-Security-Token", "X-Amz-User-Agent">>

\* Cors.ALL_METHODS of aws-cdk-lib
ALL_METHODS == <<"OPTIONS", "GET", "PUT", "POST", "DELETE", "PATCH", "HEAD">>

\* Authorizers.none(): the built-in "no authorization" authorizer
AuthorizerNone == [authorizationType |-> "NONE", authorizerId |-> "none"]

\* Authorizers.iam(): AWS SigV4 authorization
AuthorizerIam == [authorizationType |-> "AWS_IAM", authorizerId |-> "aws.auth.sigv4"]

\* Authorizers.custom({authorizerId, function}): a lambda authorizer
AuthorizerCustom(authorizerId) ==
  [authorizationType |-> "CUSTOM", authorizerId |-> authorizerId]

\* isCustomAuthorizer
isCustomAuthorizer(authorizer) == authorizer.authorizationType = "CUSTOM"

\* concatMethodAndPath: the canonical concatenation of method and path
concatMethodAndPath(methodAndPath) ==
  methodAndPath.method \o "||" \o methodAndPath.path

\* functionInvocationUri: the invocation reference of a lambda handle
functionInvocationUri(lambdaFunction) ==
  "arn:aws:apigateway:lambda:path/functions/" \o lambdaFunction \o "/invocations"

\* applyMethodAuthorizer: the security fragment of an operation.  IAM gives the
\* AWS-SigV4 requirement, Custom a reference to the authorizer's scheme, None the
\* explicit empty requirement
applyMethodAuthorizer(methodAuthorizer) ==
  [security |->
     IF methodAuthorizer.authorizationType = "NONE" THEN <<>>
     ELSE << (methodAuthorizer.authorizerId :> <<>>) >>]

\* getAllAuthorizers: the default authorizer and every integration's authorizer
getAllAuthorizers(opts) ==
  (IF Has(opts, "defaultAuthorizer") THEN {opts.defaultAuthorizer} ELSE {})
  \cup {opts.integrations[id].authorizer :
          id \in {i \in DOMAIN opts.integrations :
                    Has(opts.integrations[i], "authorizer")}}

\* the scheme definition of one Custom authorizer
customSecurityScheme(authorizer) ==
  [type |-> "apiKey", name |-> "Authorization",
   authorizerType |-> "request:" \o authorizer.authorizerId]

\* prepareSecuritySchemes(scope, options): one scheme definition per distinct
\* Custom authorizer of the options, keyed by authorizer id
prepareSecuritySchemes(opts) ==
  LET custom == {a \in getAllAuthorizers(opts) : isCustomAuthorizer(a)}
  IN [id \in {a.authorizerId : a \in custom} |->
        customSecurityScheme(CHOOSE a \in custom : a.authorizerId = id)]

(***************************************************************************)
(* api-gateway-integrations.ts                                             *)
(***************************************************************************)

\* getOperationName of prepareApiSpec: operationNameByPath[concatMethodAndPath(..)],
\* undefined for a key the reverse index does not hold
getOperationName(operationNameByPath, methodAndPath) ==
  IF Has(operationNameByPath, concatMethodAndPath(methodAndPath))
  THEN operationNameByPath[concatMethodAndPath(methodAndPath)]
  ELSE Undefined

getCorsHeaderDefinitions ==
  [h \in {"Access-Control-Allow-Origin", "Access-Control-Allow-Methods",
          "Access-Control-Allow-Headers"} |-> [schema |-> [type |-> "string"]]]

\* `'${list.join(",")}'`
QuotedList(list) == "'" \o Join(list, ",") \o "'"

generateCorsResponseHeaders(corsOptions) ==
  [h \in {"Access-Control-Allow-Headers", "Access-Control-Allow-Methods",
          "Access-Control-Allow-Origin"} |->
     CASE h = "Access-Control-Allow-Headers" ->
            QuotedList(IF Has(corsOptions, "allowHeaders")
                       THEN corsOptions.allowHeaders ELSE DEFAULT_HEADERS)
       [] h = "Access-Control-Allow-Methods" ->
            QuotedList(IF Has(corsOptions, "allowMethods")
                       THEN corsOptions.allowMethods ELSE ALL_METHODS)
       [] OTHER -> QuotedList(corsOptions.allowOrigins)]

\* the default value of generateCorsResponseParameters' prefix parameter
DefaultPrefix == "method.response.header"

generateCorsResponseParameters(corsOptions, prefix) ==
  LET headers == generateCorsResponseHeaders(corsOptions)
      keyOf(header) == prefix \o "." \o header
  IN [key \in {keyOf(header) : header \in DOMAIN headers} |->
        headers[CHOOSE header \in DOMAIN headers : keyOf(header) = key]]

\* the status code taken to be 204 whatever the policy says
corsStatusCode_Always204(corsOptions) == 204

\* const statusCode = corsOptions.statusCode || 204  (0 is falsy)
DefaultStatusCode == 204

corsStatusCode(corsOptions) ==
  IF Has(corsOptions, "statusCode") /\ corsOptions.statusCode # 0
  THEN corsOptions.statusCode ELSE DefaultStatusCode

\* generateCorsOptionsMethod without the test for an OPTIONS the path item defines
generateCorsOptionsMethod_Overwrite(pathItem, opts) ==
  IF ~Has(opts, "corsOptions") THEN EmptyObject
  ELSE
    LET statusCode == corsStatusCode(opts.corsOptions)
    IN "options" :>
         (("x-amazon-apigateway-integration" :>
             [type |-> "mock",
              requestTemplates |->
                ("application/json" :> "{\"statusCode\": " \o ToString(statusCode) \o "}"),
              responses |->
                [default |->
                   [statusCode |-> ToString(statusCode),
                    responseParameters |->
                      generateCorsResponseParameters(opts.corsOptions, DefaultPrefix),
                    responseTemplates |-> ("application/json" :> "{}")]]])
          @@ [summary |-> "CORS Support",
              description |-> "Enable CORS by returning the correct headers",
              responses |->
                (ToString(statusCode) :>
                   [description |-> "Default response for CORS method",
                    headers |-> getCorsHeaderDefinitions,
                    content |-> EmptyObject])])

generateCorsOptionsMethod(pathItem, opts) ==
  IF Has(pathItem, "options") \/ ~Has(opts, "corsOptions") THEN EmptyObject
  ELSE
    LET statusCode == corsStatusCode(opts.corsOptions)
    IN "options" :>
         (("x-amazon-apigateway-integration" :>
             [type |-> "mock",
              requestTemplates |->
                ("application/json" :> "{\"statusCode\": " \o ToString(statusCode) \o "}"),
              responses |->
                [default |->
                   [statusCode |-> ToString(statusCode),
                    responseParameters |->
                      generateCorsResponseParameters(opts.corsOptions, DefaultPrefix),
                    responseTemplates |-> ("application/json" :> "{}")]]])
          @@ [summary |-> "CORS Support",
              description |-> "Enable CORS by returning the correct headers",
              responses |->
                (ToString(statusCode) :>
                   [description |-> "Default response for CORS method",
                    headers |-> getCorsHeaderDefinitions,
                    content |-> EmptyObject])])

\* the default authorizer preferred to the integration's
methodAuthorizer_DefaultFirst(integration, opts) ==
  IF Has(opts, "defaultAuthorizer") THEN opts.defaultAuthorizer
  ELSE IF Has(integration, "authorizer") THEN integration.authorizer
  ELSE AuthorizerNone

\* authorizer ?? defaultAuthorizer ?? Authorizers.none()
methodAuthorizer(integration, opts) ==
  IF Has(integration, "authorizer") THEN integration.authorizer
  ELSE IF Has(opts, "defaultAuthorizer") THEN opts.defaultAuthorizer
  ELSE AuthorizerNone

\* the two spreads in the other order: the CORS definitions overwrite the author's
responseHeaders_CorsWins(response, opts) ==
  Spread(IF Has(response, "headers") THEN response.headers ELSE EmptyObject,
         IF Has(opts, "corsOptions") THEN getCorsHeaderDefinitions ELSE EmptyObject)

\* the CORS definitions merged in without the test for corsOptions
responseHeaders_AlwaysCors(response, opts) ==
  Spread(getCorsHeaderDefinitions,
         IF Has(response, "headers") THEN response.headers ELSE EmptyObject)

\* headers: { ...(corsOptions ? getCorsHeaderDefinitions() : {}), ...response.headers }
responseHeaders(response, opts) ==
  Spread(IF Has(opts, "corsOptions") THEN getCorsHeaderDefinitions ELSE EmptyObject,
         IF Has(response, "headers") THEN response.headers ELSE EmptyObject)

applyMethodIntegration(path, method, opts, operation, operationNameByPath) ==
  LET operationName ==
        getOperationName(operationNameByPath, [method |-> method, path |-> path])
  IN IF ~Has(opts.integrations, operationName)
     THEN Thrown("Missing required integration for operation " \o operationName
                 \o " (" \o method \o " " \o path \o ")")
     ELSE
       LET integration == opts.integrations[operationName]
           uri == functionInvocationUri(integration.function)
       IN Returned(
            Spread(
              Spread(
                Spread(operation,
                  [responses |->
                     [statusCode \in DOMAIN operation.responses |->
                        Spread(operation.responses[statusCode],
                               [headers |->
                                  responseHeaders(operation.responses[statusCode], opts)])]]),
                "x-amazon-apigateway-integration" :>
                  [type |-> "AWS_PROXY", httpMethod |-> "POST", uri |-> uri,
                   passthroughBehavior |-> "when_no_match"]),
              applyMethodAuthorizer(methodAuthorizer(integration, opts))))

\* the methods of HttpMethods the path item defines, in HttpMethods order
presentMethods(pathItem) == SelectSeq(HttpMethods, LAMBDA method : Has(pathItem, method))

\* preparePathSpec without the spread of generateCorsOptionsMethod
preparePathSpec_NoPreflight(path, pathItem, opts, operationNameByPath) ==
  LET methods == presentMethods(pathItem)
      applied == [i \in 1..Len(methods) |->
                    applyMethodIntegration(path, methods[i], opts,
                                           pathItem[methods[i]], operationNameByPath)]
      thrown == {i \in 1..Len(methods) : applied[i].status = "thrown"}
  IN IF thrown # {}
     THEN applied[CHOOSE i \in thrown : \A j \in thrown : i <= j]
     ELSE Returned(
            Spread(pathItem,
                   FromEntries([i \in 1..Len(methods) |->
                                  <<methods[i], applied[i].value>>])))

\* preparePathSpec without the spread of the path item itself
preparePathSpec_NoPathItemSpread(path, pathItem, opts, operationNameByPath) ==
  LET methods == presentMethods(pathItem)
      applied == [i \in 1..Len(methods) |->
                    applyMethodIntegration(path, methods[i], opts,
                                           pathItem[methods[i]], operationNameByPath)]
      thrown == {i \in 1..Len(methods) : applied[i].status = "thrown"}
  IN IF thrown # {}
     THEN applied[CHOOSE i \in thrown : \A j \in thrown : i <= j]
     ELSE Returned(
            Spread(FromEntries([i \in 1..Len(methods) |->
                                  <<methods[i], applied[i].value>>]),
                   generateCorsOptionsMethod(pathItem, opts)))

preparePathSpec(path, pathItem, opts, operationNameByPath) ==
  LET methods == presentMethods(pathItem)
      applied == [i \in 1..Len(methods) |->
                    applyMethodIntegration(path, methods[i], opts,
                                           pathItem[methods[i]], operationNameByPath)]
      thrown == {i \in 1..Len(methods) : applied[i].status = "thrown"}
  IN IF thrown # {}
     THEN applied[CHOOSE i \in thrown : \A j \in thrown : i <= j]
     ELSE Returned(
            Spread(
              Spread(pathItem,
                     FromEntries([i \in 1..Len(methods) |->
                                    <<methods[i], applied[i].value>>])),
              generateCorsOptionsMethod(pathItem, opts)))

\* the reverse lookup of prepareApiSpec: concatMethodAndPath -> operation name
\* the reverse index in which the first identifier of a (method, path) wins
operationNameByPathOf_FirstWins(opts) ==
  FromEntries([i \in 1..Len(opts.operationLookup) |->
                 LET entry == opts.operationLookup[Len(opts.operationLookup) + 1 - i]
                 IN <<concatMethodAndPath(entry[2]), entry[1]>>])

operationNameByPathOf(opts) ==
  FromEntries([i \in 1..Len(opts.operationLookup) |->
                 <<concatMethodAndPath(opts.operationLookup[i][2]),
                   opts.operationLookup[i][1]>>])

\* the x-amazon-apigateway-gateway-responses extension
gatewayResponses(opts) ==
  [BAD_REQUEST_BODY |->
     Spread([statusCode |-> 400,
             responseTemplates |->
               ("application/json" :>
                  "{\"message\": \"$context.error.validationErrorString\"}")],
            IF Has(opts, "corsOptions")
            THEN [responseParameters |->
                    generateCorsResponseParameters(opts.corsOptions,
                                                   "gatewayresponse.header")]
            ELSE EmptyObject)]

prepareApiSpec(document, opts) ==
  LET operationNameByPath == operationNameByPathOf(opts)
      prepared == [i \in 1..Len(document.paths) |->
                     preparePathSpec(document.paths[i][1], document.paths[i][2],
                                     opts, operationNameByPath)]
      thrown == {i \in 1..Len(document.paths) : prepared[i].status = "thrown"}
  IN IF thrown # {}
     THEN prepared[CHOOSE i \in thrown : \A j \in thrown : i <= j]
     ELSE Returned(
            Spread(document,
              ("x-amazon-apigateway-request-validators" :>
                 [all |-> [validateRequestBody |-> TRUE,
                           validateRequestParameters |-> TRUE]])
              @@ ("x-amazon-apigateway-request-validator" :> "all")
              @@ ("x-amazon-apigateway-gateway-responses" :> gatewayResponses(opts))
              @@ [paths |-> [i \in 1..Len(document.paths) |->
                               <<document.paths[i][1], prepared[i].value>>],
                  components |->
                    Spread(IF Has(document, "components")
                           THEN document.components ELSE EmptyObject,
                           [securitySchemes |-> prepareSecuritySchemes(opts)])]))

(***************************************************************************)
(* The state machine: one call of prepareApiSpec on the caller's document, *)
(* and one more call on the document that call returned.                   *)
(***************************************************************************)

\* prepareApiSpec has not been called
NotCalled == [status |-> "not called"]

\* const composed = prepareApiSpec(scope, spec, options)
Compose ==
  /\ result = NotCalled
  /\ result' = prepareApiSpec(spec, options)
  /\ UNCHANGED <<spec, options, recomposed>>

\* prepareApiSpec(scope, composed, options): the same options, the composed document
Recompose ==
  /\ result.status = "returned"
  /\ recomposed = NotCalled
  /\ recomposed' = prepareApiSpec(result.value, options)
  /\ UNCHANGED <<spec, options, result>>

Next == Compose \/ Recompose

(***************************************************************************)
(* The inputs the calls are checked on                                     *)
(***************************************************************************)

\* most paths of a document
MaxPaths == 2

\* most entries of a CORS policy's allowOrigins
MaxOrigins == 2

\* the k-th path of a document
PathName(k) == "/p" \o ToString(k)

\* a header definition written by the author (the CORS ones have type string)
AuthorHeader == [schema |-> [type |-> "integer"]]

\* an operation whose only response defines no headers
OperationPlain ==
  [summary |-> "plain", operationId |-> "id",
   responses |-> ("200" :> [description |-> "ok"])]

\* an operation whose responses define headers, one of them named like a CORS header
OperationWithHeaders ==
  [summary |-> "headers", operationId |-> "id",
   responses |->
     ("200" :> [description |-> "ok",
                headers |-> ("Access-Control-Allow-Origin" :> AuthorHeader)
                            @@ ("X-Request-Id" :> AuthorHeader)])
     @@ ("404" :> [description |-> "not found", headers |-> EmptyObject])]

\* an operation that already defines all three CORS headers, and one without headers
OperationAllCors ==
  [summary |-> "cors", operationId |-> "id",
   responses |->
     ("200" :> [description |-> "ok",
                headers |-> [h \in DOMAIN getCorsHeaderDefinitions |-> AuthorHeader]])
     @@ ("500" :> [description |-> "error"])]

OperationShapes == {OperationPlain, OperationWithHeaders, OperationAllCors}

\* the methods the documents define
DocMethods == {"get", "options"}

\* a path item: the same operation under each method of methodSet, and a
\* non-method field
PathItem(methodSet, operation) ==
  ("parameters" :> "shared") @@ [method \in methodSet |-> operation]

\* a document of Len(pathItems) paths
Document(pathItems, components) ==
  Spread([openapi |-> "3.0.3", info |-> "api",
          paths |-> [k \in 1..Len(pathItems) |-> <<PathName(k), pathItems[k]>>]],
         components)

\* the (method, path) pairs of a document, as MethodAndPath objects
OperationsOf(document) ==
  {[method |-> method, path |-> document.paths[k][1]] :
     <<k, method>> \in
       {km \in (1..Len(document.paths)) \X {HttpMethods[i] : i \in 1..Len(HttpMethods)} :
          Has(document.paths[km[1]][2], km[2])}}

\* the operation identifier the generated lookup gives a (method, path)
OperationId(methodAndPath) == methodAndPath.method \o methodAndPath.path

\* the position of a (method, path) in the walk of a document: paths in key
\* order, methods in HttpMethods order
WalkIndex(document, methodAndPath) ==
  LET k == CHOOSE k \in 1..Len(document.paths) : document.paths[k][1] = methodAndPath.path
      i == CHOOSE i \in 1..Len(HttpMethods) : HttpMethods[i] = methodAndPath.method
  IN k * (Len(HttpMethods) + 1) + i

\* a set of (method, path) as the sequence ordered by WalkIndex
RECURSIVE InWalkOrder(_, _)
InWalkOrder(document, operations) ==
  IF operations = {} THEN <<>>
  ELSE LET first == CHOOSE o \in operations :
                      \A p \in operations : WalkIndex(document, o) <= WalkIndex(document, p)
       IN <<first>> \o InWalkOrder(document, operations \ {first})

\* an operationLookup listing exactly `listed`, in walk order
LookupOf(document, listed) ==
  LET ordered == InWalkOrder(document, listed)
  IN [i \in 1..Len(ordered) |-> <<OperationId(ordered[i]), ordered[i]>>]

\* an integrations mapping for the identifiers `names`
IntegrationsOf(names) == [name \in names |-> [function |-> "fn:" \o name]]

\* a CORS policy with every optional field left out
CorsSimple == [allowOrigins |-> <<"https://example.com">>]

\* Init of Spec: documents of up to MaxPaths paths; any subset of their operations
\* is missing from operationLookup, any other subset from integrations; the
\* integrations may hold an entry whose identifier is the string "undefined"
Init ==
  /\ \E n \in 1..MaxPaths :
       \E methodSets \in [1..n -> SUBSET DocMethods] :
         LET document == Document([k \in 1..n |-> PathItem(methodSets[k], OperationPlain)],
                                  [components |-> [schemas |-> "Pet"]])
         IN \E unlisted \in SUBSET OperationsOf(document) :
              \E unintegrated \in SUBSET (OperationsOf(document) \ unlisted) :
                \E extraNames \in {{}, {Undefined}} :
                  \E cors \in {EmptyObject, [corsOptions |-> CorsSimple]} :
                    /\ spec = document
                    /\ options =
                         Spread([integrations |->
                                   IntegrationsOf(
                                     {OperationId(o) :
                                        o \in OperationsOf(document) \ unintegrated}
                                     \cup extraNames),
                                 operationLookup |->
                                   LookupOf(document, OperationsOf(document) \ unlisted)],
                                cors)
  /\ result = NotCalled
  /\ recomposed = NotCalled

Spec == Init /\ [][Next]_vars

\* the sequences over `values` of length at most n
RECURSIVE ListsUpTo(_, _)
ListsUpTo(values, n) ==
  IF n = 0 THEN {<<>>}
  ELSE ListsUpTo(values, n - 1)
       \cup {Append(list, v) : list \in {l \in ListsUpTo(values, n - 1) : Len(l) = n - 1},
                               v \in values}

\* the ways a CORS policy fills its optional fields
CorsOptionalFields ==
  {EmptyObject,
   [allowHeaders |-> <<"X-Api-Key", "Accept">>],
   [allowHeaders |-> <<>>, allowMethods |-> <<"GET", "POST">>],
   [statusCode |-> 200],
   [allowHeaders |-> <<"Accept">>, allowMethods |-> <<"GET">>, statusCode |-> 200]}

\* the CORS policies: allowOrigins of any length up to MaxOrigins (the empty list
\* too); status codes are HTTP status codes
CorsPolicies ==
  {Spread([allowOrigins |-> origins], optional) :
     origins \in ListsUpTo({"https://example.com", "*"}, MaxOrigins),
     optional \in CorsOptionalFields}

\* Init of SpecCors: documents of up to MaxPaths paths over the operation shapes,
\* every operation of the document listed and integrated; besides, the options
\* hold nothing more, or entries for OPTIONS on every path (also where the document
\* defines none), or an integration whose identifier is the string "undefined";
\* no CORS policy or any of CorsPolicies
InitCors ==
  /\ \E n \in 1..MaxPaths :
       \E methodSets \in [1..n -> SUBSET DocMethods] :
         \E operation \in OperationShapes :
           LET document == Document([k \in 1..n |-> PathItem(methodSets[k], operation)],
                                    [components |-> [schemas |-> "Pet"]])
               allOptions == {[method |-> "options", path |-> PathName(k)] : k \in 1..n}
           IN \E more \in {"nothing", "options", "undefined"} :
                \E cors \in {EmptyObject} \cup {[corsOptions |-> p] : p \in CorsPolicies} :
                  LET listed == OperationsOf(document)
                                  \cup (IF more = "options" THEN allOptions ELSE {})
                  IN /\ spec = document
                     /\ options =
                          Spread([integrations |->
                                    IntegrationsOf(
                                      {OperationId(o) : o \in listed}
                                      \cup (IF more = "undefined" THEN {Undefined} ELSE {})),
                                  operationLookup |-> LookupOf(document, listed)],
                                 cors)
  /\ result = NotCalled
  /\ recomposed = NotCalled

SpecCors == InitCors /\ [][Next]_vars

\* a security scheme the author declared in the document
AuthorScheme == [type |-> "apiKey", name |-> "X-Api-Key", authorizerType |-> "none"]

\* the components sections of the documents of SpecAuth: none, one without
\* securitySchemes, one with an author-defined scheme
ComponentsChoices ==
  {EmptyObject,
   [components |-> [schemas |-> "Pet"]],
   [components |-> [schemas |-> "Pet", securitySchemes |-> [apiKey |-> AuthorScheme]]]}

\* what an integration or the options can say about the authorizer: nothing, or
\* one of the variants
AuthorizerChoices(key) ==
  {EmptyObject} \cup {(key :> a) : a \in {AuthorizerNone, AuthorizerIam,
                                          AuthorizerCustom("a1"), AuthorizerCustom("a2")}}

\* Init of SpecAuth: documents of up to MaxPaths paths with one GET each, every
\* operation listed and integrated; each integration and the options choose their
\* authorizer freely; the document may declare components and a security scheme
InitAuth ==
  /\ \E n \in 1..MaxPaths :
       LET operations == {[method |-> "get", path |-> PathName(k)] : k \in 1..n}
       IN \E components \in ComponentsChoices :
            \E authorizers \in [operations -> AuthorizerChoices("authorizer")] :
              \E default \in AuthorizerChoices("defaultAuthorizer") :
                LET document == Document([k \in 1..n |-> PathItem({"get"}, OperationPlain)],
                                         components)
                IN /\ spec = document
                   /\ options =
                        Spread([integrations |->
                                  [name \in {OperationId(o) : o \in operations} |->
                                     Spread([function |-> "fn:" \o name],
                                            authorizers[CHOOSE o \in operations :
                                                          OperationId(o) = name])],
                                operationLookup |-> LookupOf(document, operations)],
                               default)
  /\ result = NotCalled
  /\ recomposed = NotCalled

SpecAuth == InitAuth /\ [][Next]_vars

\* a second identifier of operationLookup for a (method, path) that has one
AliasName == "alias"

\* the entries with one more entry after the first `position` of them
InsertAt(entries, position, entry) ==
  SubSeq(entries, 1, position) \o <<entry>> \o SubSeq(entries, position + 1, Len(entries))

\* Init of SpecAlias: documents of up to MaxPaths paths with one GET each, every
\* operation listed under its own identifier; one of them is listed a second time
\* under AliasName, inserted anywhere in operationLookup; any subset of the
\* identifiers has an integration, each with its own function handle; the alias
\* and the own identifiers may name different authorizers
InitAlias ==
  /\ \E n \in 1..MaxPaths :
       LET operations == {[method |-> "get", path |-> PathName(k)] : k \in 1..n}
           names == {OperationId(o) : o \in operations} \cup {AliasName}
           document == Document([k \in 1..n |-> PathItem({"get"}, OperationPlain)],
                                EmptyObject)
       IN \E target \in operations, position \in 0..n, integrated \in SUBSET names :
            \E aliasAuthorizer \in {EmptyObject, [authorizer |-> AuthorizerCustom("a1")]},
               ownAuthorizer \in {EmptyObject, [authorizer |-> AuthorizerIam]} :
              /\ spec = document
              /\ options =
                   [integrations |->
                      [name \in integrated |->
                         Spread([function |-> "fn:" \o name],
                                IF name = AliasName THEN aliasAuthorizer
                                ELSE ownAuthorizer)],
                    operationLookup |->
                      InsertAt(LookupOf(document, operations), position,
                               <<AliasName, target>>)]
  /\ result = NotCalled
  /\ recomposed = NotCalled

SpecAlias == InitAlias /\ [][Next]_vars

(***************************************************************************)
(* Vocabulary of the properties                                            *)
(***************************************************************************)

\* the entries of operationLookup whose value is this (method, path)
EntriesFor(opts, methodAndPath) ==
  {i \in 1..Len(opts.operationLookup) : opts.operationLookup[i][2] = methodAndPath}

\* the (method, path) pairs of the document that have no operationLookup entry
Unlisted(document, opts) ==
  {o \in OperationsOf(document) : EntriesFor(opts, o) = {}}

\* the (method, path) pairs of the document whose operationLookup entry names an
\* identifier the integrations mapping does not hold
Unintegrated(document, opts) ==
  {o \in OperationsOf(document) :
     /\ EntriesFor(opts, o) # {}
     /\ \E i \in EntriesFor(opts, o) :
          /\ \A j \in EntriesFor(opts, o) : j <= i
          /\ ~Has(opts.integrations, opts.operationLookup[i][1])}

\* the error message names this method and this path
NamesMethodAndPath(message, methodAndPath) ==
  \E name \in {OperationId(o) : o \in OperationsOf(spec)} \cup {Undefined} :
    message = "Missing required integration for operation " \o name \o " ("
              \o methodAndPath.method \o " " \o methodAndPath.path \o ")"

\* the paths of the document on which a preflight is due: CORS enabled, no OPTIONS
PreflightPaths(document, opts) ==
  {document.paths[k][1] :
     k \in {j \in 1..Len(document.paths) :
              Has(opts, "corsOptions") /\ ~Has(document.paths[j][2], "options")}}

\* the path item of a path of a document
PathItemOf(document, path) ==
  document.paths[CHOOSE k \in 1..Len(document.paths) : document.paths[k][1] = path][2]

(***************************************************************************)
(* C1                                                                      *)
(***************************************************************************)

\* C1: whenever some method of some path item has no operationLookup entry, or
\* resolves to an identifier the integrations mapping lacks, prepareApiSpec throws
\* an error naming such a method and path, and returns no document.
C1_MissingIntegrationFails ==
  (result # NotCalled /\ Unlisted(spec, options) \cup Unintegrated(spec, options) # {})
    => /\ result.status = "thrown"
       /\ \E o \in Unlisted(spec, options) \cup Unintegrated(spec, options) :
            NamesMethodAndPath(result.message, o)

(***************************************************************************)
(* C2                                                                      *)
(***************************************************************************)

\* C2: when every (method, path) of the document has an operationLookup entry whose
\* identifier has an integrations entry, prepareApiSpec returns, and the (method,
\* path) pairs of the output are those of the input plus one OPTIONS per path on
\* which CORS is enabled and OPTIONS was absent.
C2_SameOperationsPlusPreflight ==
  (result # NotCalled /\ Unlisted(spec, options) \cup Unintegrated(spec, options) = {})
    => /\ result.status = "returned"
       /\ OperationsOf(result.value) =
            OperationsOf(spec)
            \cup {[method |-> "options", path |-> p] : p \in PreflightPaths(spec, options)}
       /\ [k \in 1..Len(result.value.paths) |-> result.value.paths[k][1]]
            = [k \in 1..Len(spec.paths) |-> spec.paths[k][1]]

\* a composed document with a path that defined OPTIONS, a path that did not, and CORS on
C2_Witness ==
  /\ result.status = "returned"
  /\ Has(options, "corsOptions")
  /\ PreflightPaths(spec, options) # {}
  /\ \E o \in OperationsOf(spec) : o.method = "options"
  /\ \E o \in OperationsOf(spec) : o.method = "get"

(***************************************************************************)
(* C3                                                                      *)
(***************************************************************************)

\* the names of the three CORS headers
CorsHeaderNames ==
  {"Access-Control-Allow-Origin", "Access-Control-Allow-Methods",
   "Access-Control-Allow-Headers"}

\* the operation of a document under a (method, path)
OperationOf(document, methodAndPath) ==
  PathItemOf(document, methodAndPath.path)[methodAndPath.method]

\* the headers the author gave a response: none when the response has no headers key
AuthorHeaders(response) ==
  IF "headers" \in DOMAIN response THEN response.headers ELSE [h \in {} |-> AuthorHeader]

\* C3: with CORS enabled, in every response of every composed operation each header
\* the author defined is present with the author's definition (also one named like
\* a CORS header), and the headers added are exactly the CORS headers the author
\* did not define, each with the string schema.
C3_HeaderInjectionAdditive ==
  (result.status = "returned" /\ Has(options, "corsOptions"))
    => \A o \in OperationsOf(spec) :
         LET before == OperationOf(spec, o).responses
             after == OperationOf(result.value, o).responses
         IN /\ DOMAIN after = DOMAIN before
            /\ \A statusCode \in DOMAIN before :
                 LET author == AuthorHeaders(before[statusCode])
                     composed == after[statusCode].headers
                 IN /\ \A h \in DOMAIN author :
                         h \in DOMAIN composed /\ composed[h] = author[h]
                    /\ DOMAIN composed \ DOMAIN author = CorsHeaderNames \ DOMAIN author
                    /\ \A h \in DOMAIN composed \ DOMAIN author :
                         composed[h] = [schema |-> [type |-> "string"]]

\* CORS is on and a composed response had an author-defined Access-Control-Allow-Origin
\* header whose definition is not the CORS one
C3_Witness ==
  /\ result.status = "returned"
  /\ Has(options, "corsOptions")
  /\ \E o \in OperationsOf(spec) :
       \E statusCode \in DOMAIN OperationOf(spec, o).responses :
         LET author == AuthorHeaders(OperationOf(spec, o).responses[statusCode])
         IN /\ "Access-Control-Allow-Origin" \in DOMAIN author
            /\ "Access-Control-Allow-Methods" \notin DOMAIN author
            /\ author["Access-Control-Allow-Origin"] = AuthorHeader
            /\ OperationOf(result.value, o).responses[statusCode]
                 .headers["Access-Control-Allow-Origin"] = AuthorHeader

(***************************************************************************)
(* C4                                                                      *)
(***************************************************************************)

\* C4: on every path item that defines OPTIONS, with or without CORS, the OPTIONS of
\* the output is the author's operation as applyMethodIntegration rewrites it (the
\* author's fields and status codes, the AWS_PROXY integration, a security
\* fragment), not the synthetic mock preflight.
C4_AuthorOptionsKept ==
  result.status = "returned"
    => \A o \in {p \in OperationsOf(spec) : p.method = "options"} :
         LET author == OperationOf(spec, o)
             composed == OperationOf(result.value, o)
         IN /\ composed.summary = author.summary
            /\ composed.operationId = author.operationId
            /\ ~Has(composed, "description")
            /\ DOMAIN composed.responses = DOMAIN author.responses
            /\ \A statusCode \in DOMAIN author.responses :
                 composed.responses[statusCode].description
                   = author.responses[statusCode].description
            /\ composed["x-amazon-apigateway-integration"].type = "AWS_PROXY"
            /\ composed["x-amazon-apigateway-integration"].uri
                 = "arn:aws:apigateway:lambda:path/functions/fn:" \o OperationId(o)
                   \o "/invocations"
            /\ Has(composed, "security")

\* CORS is on and a path of the composed document defined OPTIONS itself
C4_Witness ==
  /\ result.status = "returned"
  /\ Has(options, "corsOptions")
  /\ \E o \in OperationsOf(spec) : o.method = "options"

(***************************************************************************)
(* C5                                                                      *)
(***************************************************************************)

\* a list joined by commas, folded from its end
RECURSIVE CommaSeparated(_)
CommaSeparated(list) ==
  IF list = <<>> THEN ""
  ELSE IF Len(list) = 1 THEN list[1]
  ELSE CommaSeparated(SubSeq(list, 1, Len(list) - 1)) \o "," \o list[Len(list)]

\* the status code the policy asks for, as the key of a response
PolicyStatus(policy) ==
  IF "statusCode" \in DOMAIN policy THEN ToString(policy.statusCode) ELSE "204"

\* the value a CORS header must carry under a policy
PolicyValue(policy, header) ==
  CASE header = "Access-Control-Allow-Origin" ->
         "'" \o CommaSeparated(policy.allowOrigins) \o "'"
    [] header = "Access-Control-Allow-Methods" ->
         IF "allowMethods" \in DOMAIN policy
         THEN "'" \o CommaSeparated(policy.allowMethods) \o "'"
         ELSE "'OPTIONS,GET,PUT,POST,DELETE,PATCH,HEAD'"
    [] header = "Access-Control-Allow-Headers" ->
         IF "allowHeaders" \in DOMAIN policy
         THEN "'" \o CommaSeparated(policy.allowHeaders) \o "'"
         ELSE "'Content-Type,X-Amz-Date,Authorization,X-Api-Key,X-Amz-Security-Token,X-Amz-User-Agent'"

\* C5: with a CORS policy, every path item without OPTIONS gets an OPTIONS operation
\* with exactly one response, keyed by the policy's status code (204 when it gives
\* none) and carrying the three CORS header definitions, and a mock integration
\* whose default response has that status code, the body template {} and the three
\* method.response.header.* parameters valued by the policy's (or the default)
\* lists, comma-joined in single quotes; composition returns although no
\* operationLookup or integrations entry exists for that OPTIONS.
C5_SyntheticPreflight ==
  (result # NotCalled /\ Has(options, "corsOptions"))
    => /\ result.status = "returned"
       /\ \A path \in PreflightPaths(spec, options) :
            LET preflight == PathItemOf(result.value, path)["options"]
                integration == preflight["x-amazon-apigateway-integration"]
                status == PolicyStatus(options.corsOptions)
            IN /\ DOMAIN preflight.responses = {status}
               /\ DOMAIN preflight.responses[status].headers = CorsHeaderNames
               /\ \A h \in CorsHeaderNames :
                    preflight.responses[status].headers[h] = [schema |-> [type |-> "string"]]
               /\ integration.type = "mock"
               /\ DOMAIN integration.responses = {"default"}
               /\ integration.responses.default.statusCode = status
               /\ integration.responses.default.responseTemplates
                    = ("application/json" :> "{}")
               /\ DOMAIN integration.responses.default.responseParameters
                    = {"method.response.header." \o h : h \in CorsHeaderNames}
               /\ \A h \in CorsHeaderNames :
                    integration.responses.default.responseParameters[
                        "method.response.header." \o h]
                      = PolicyValue(options.corsOptions, h)
               /\ ~Has(preflight, "security")

\* a preflight was synthesized on a path whose OPTIONS has neither an operationLookup
\* nor an integrations entry, under a policy with two origins and a status code
C5_Witness ==
  /\ result.status = "returned"
  /\ Has(options, "corsOptions")
  /\ \E path \in PreflightPaths(spec, options) :
       /\ EntriesFor(options, [method |-> "options", path |-> path]) = {}
       /\ ~Has(options.integrations, OperationId([method |-> "options", path |-> path]))
       /\ Len(options.corsOptions.allowOrigins) = 2
       /\ Has(options.corsOptions, "statusCode")
       /\ Has(PathItemOf(spec, path), "get")

(***************************************************************************)
(* C6                                                                      *)
(***************************************************************************)

\* C6: without corsOptions no path gains an OPTIONS method, the header map of every
\* response of every operation is the author's, and the bad-request-body gateway
\* response has no response parameters.
C6_NoCorsNoChange ==
  (result.status = "returned" /\ ~Has(options, "corsOptions"))
    => /\ \A k \in 1..Len(spec.paths) :
            Has(result.value.paths[k][2], "options") => Has(spec.paths[k][2], "options")
       /\ \A o \in OperationsOf(spec) :
            \A statusCode \in DOMAIN OperationOf(spec, o).responses :
              OperationOf(result.value, o).responses[statusCode].headers
                = AuthorHeaders(OperationOf(spec, o).responses[statusCode])
       /\ ~Has(result.value["x-amazon-apigateway-gateway-responses"].BAD_REQUEST_BODY,
               "responseParameters")

\* no CORS policy, two paths, one without OPTIONS, operations with and without headers
C6_Witness ==
  /\ result.status = "returned"
  /\ ~Has(options, "corsOptions")
  /\ Len(spec.paths) >= 2
  /\ \E k \in 1..Len(spec.paths) :
       Has(spec.paths[k][2], "get") /\ ~Has(spec.paths[k][2], "options")
  /\ \E o \in OperationsOf(spec) :
       \E statusCode \in DOMAIN OperationOf(spec, o).responses :
         DOMAIN AuthorHeaders(OperationOf(spec, o).responses[statusCode]) # {}

(***************************************************************************)
(* C7                                                                      *)
(***************************************************************************)

\* the integration the options bind to a (method, path) of the document
IntegrationOf(opts, methodAndPath) ==
  opts.integrations[
    opts.operationLookup[CHOOSE i \in EntriesFor(opts, methodAndPath) :
                           \A j \in EntriesFor(opts, methodAndPath) : j <= i][1]]

\* the security requirement of an authorizer: none for NONE, a reference to
\* aws.auth.sigv4 for IAM, a reference to its own scheme for a Custom authorizer
RequirementOf(authorizer) ==
  CASE authorizer.authorizationType = "NONE" -> <<>>
    [] authorizer.authorizationType = "AWS_IAM" -> << ("aws.auth.sigv4" :> <<>>) >>
    [] OTHER -> << (authorizer.authorizerId :> <<>>) >>

\* C7: the security fragment of every composed operation is that of the
\* integration's authorizer when the integration gives one, else that of the default
\* authorizer when the options give one, else the "no authorization" one; under a
\* default of IAM an integration without authorizer gets the SigV4 requirement.
C7_AuthorizerPrecedence ==
  result.status = "returned"
    => \A o \in OperationsOf(spec) :
         LET integration == IntegrationOf(options, o)
             security == OperationOf(result.value, o).security
         IN /\ "authorizer" \in DOMAIN integration
                 => security = RequirementOf(integration.authorizer)
            /\ ("authorizer" \notin DOMAIN integration
                  /\ "defaultAuthorizer" \in DOMAIN options)
                 => security = RequirementOf(options.defaultAuthorizer)
            /\ ("authorizer" \notin DOMAIN integration
                  /\ "defaultAuthorizer" \notin DOMAIN options)
                 => security = <<>>

\* the default authorizer is IAM; one operation's integration gives no authorizer and
\* got the SigV4 requirement, another's gives a Custom authorizer and got that one
C7_Witness ==
  /\ result.status = "returned"
  /\ Has(options, "defaultAuthorizer")
  /\ options.defaultAuthorizer = AuthorizerIam
  /\ \E o \in OperationsOf(spec) :
       /\ ~Has(IntegrationOf(options, o), "authorizer")
       /\ OperationOf(result.value, o).security = << ("aws.auth.sigv4" :> <<>>) >>
  /\ \E o \in OperationsOf(spec) :
       /\ Has(IntegrationOf(options, o), "authorizer")
       /\ IntegrationOf(options, o).authorizer = AuthorizerCustom("a1")
       /\ OperationOf(result.value, o).security = << ("a1" :> <<>>) >>

(***************************************************************************)
(* C8                                                                      *)
(***************************************************************************)

\* the securitySchemes the document declares
DeclaredSchemes(document) ==
  IF "components" \in DOMAIN document /\ "securitySchemes" \in DOMAIN document.components
  THEN document.components.securitySchemes
  ELSE [id \in {} |-> AuthorScheme]

\* the Custom authorizers the options refer to
ReferencedCustom(opts) ==
  {a \in getAllAuthorizers(opts) : a.authorizationType = "CUSTOM"}

\* C8: the securitySchemes of the output hold every scheme the input document
\* declared, with its definition, besides one scheme per referenced Custom
\* authorizer, and the other fields of components are those of the input.
C8_SecuritySchemesUnion ==
  result.status = "returned"
    => LET schemes == result.value.components.securitySchemes
       IN /\ DOMAIN schemes = DOMAIN DeclaredSchemes(spec)
                                \cup {a.authorizerId : a \in ReferencedCustom(options)}
          /\ \A id \in DOMAIN DeclaredSchemes(spec) :
               id \in DOMAIN schemes /\ schemes[id] = DeclaredSchemes(spec)[id]
          /\ \A field \in DOMAIN result.value.components \ {"securitySchemes"} :
               /\ "components" \in DOMAIN spec
               /\ field \in DOMAIN spec.components
               /\ result.value.components[field] = spec.components[field]
          /\ "components" \in DOMAIN spec =>
               DOMAIN spec.components \ {"securitySchemes"}
                 \subseteq DOMAIN result.value.components

(***************************************************************************)
(* C9                                                                      *)
(***************************************************************************)

\* C9 as claimed: with a CORS policy, composing the composed document again with the
\* same options returns, and returns the document of the first composition.
C9_RecompositionStable ==
  (recomposed # NotCalled /\ Has(options, "corsOptions")) => recomposed = result

\* the OPTIONS operations the first composition synthesized
Synthesized == {[method |-> "options", path |-> p] : p \in PreflightPaths(spec, options)}

\* the options yield an integration for a (method, path) of the document: an
\* operationLookup entry whose identifier is integrated, or no entry at all while
\* the integrations hold the identifier "undefined"
YieldsIntegration(document, opts, methodAndPath) ==
  /\ methodAndPath \notin Unintegrated(document, opts)
  /\ methodAndPath \in Unlisted(document, opts) => "undefined" \in DOMAIN opts.integrations

\* C9 as amended: with a CORS policy, the second composition yields the first
\* one's document exactly when the first synthesized no OPTIONS operation.  When it
\* did, the second composition takes each synthesized OPTIONS for an operation of
\* the author: it throws the missing-integration error naming OPTIONS and such a
\* path unless the options yield an integration for each of them, and then returns a
\* document in which they carry the AWS_PROXY integration in place of the mock one.
\* Whenever it returns, every response of every operation of the first composition
\* keeps exactly the headers it had.
C9_RecompositionAmended ==
  (recomposed # NotCalled /\ Has(options, "corsOptions"))
    => /\ Synthesized = {} => recomposed = result
       /\ Synthesized # {} =>
            /\ recomposed # result
            /\ IF \E o \in Synthesized : ~YieldsIntegration(result.value, options, o)
               THEN /\ recomposed.status = "thrown"
                    /\ \E o \in Synthesized : NamesMethodAndPath(recomposed.message, o)
               ELSE /\ recomposed.status = "returned"
                    /\ \A o \in Synthesized :
                         /\ OperationOf(result.value, o)
                              ["x-amazon-apigateway-integration"].type = "mock"
                         /\ OperationOf(recomposed.value, o)
                              ["x-amazon-apigateway-integration"].type = "AWS_PROXY"
       /\ recomposed.status = "returned" =>
            /\ OperationsOf(recomposed.value) = OperationsOf(result.value)
            /\ \A o \in OperationsOf(result.value) :
                 \A statusCode \in DOMAIN OperationOf(result.value, o).responses :
                   OperationOf(recomposed.value, o).responses[statusCode].headers
                     = OperationOf(result.value, o).responses[statusCode].headers

\* the second composition threw on the OPTIONS the first one had synthesized on a
\* path that defines GET
C9_Witness ==
  /\ Has(options, "corsOptions")
  /\ recomposed.status = "thrown"
  /\ \E o \in Synthesized :
       /\ Has(PathItemOf(spec, o.path), "get")
       /\ NamesMethodAndPath(recomposed.message, o)

(***************************************************************************)
(* C10                                                                     *)
(***************************************************************************)

\* C10: with a CORS policy whose allowOrigins is the empty list, prepareApiSpec throws
\* and returns no document.
C10_EmptyOriginsRejected ==
  (/\ result # NotCalled
   /\ Has(options, "corsOptions")
   /\ Len(options.corsOptions.allowOrigins) = 0)
    => result.status = "thrown"

(***************************************************************************)
(* C11                                                                     *)
(***************************************************************************)

\* the keys applyMethodIntegration writes on an operation
ComposedKeys == {"responses", "x-amazon-apigateway-integration", "security"}

\* the keys of a path item that are HTTP methods
MethodKeys == {HttpMethods[i] : i \in 1..Len(HttpMethods)}

\* C11: every field of an input operation other than responses, the integration
\* extension and the security fragment has its value in the composed operation,
\* which gains no other field; every field of a response other than headers is
\* unchanged; every non-method field of a path item is unchanged and none is
\* added; the integration of every composed operation has type AWS_PROXY and
\* httpMethod POST whatever its method.
C11_FramePreserved ==
  result.status = "returned"
    => /\ \A o \in OperationsOf(spec) :
            LET author == OperationOf(spec, o)
                composed == OperationOf(result.value, o)
            IN /\ DOMAIN composed = DOMAIN author \cup ComposedKeys
               /\ \A field \in DOMAIN author \ ComposedKeys :
                    composed[field] = author[field]
               /\ DOMAIN composed.responses = DOMAIN author.responses
               /\ \A statusCode \in DOMAIN author.responses :
                    /\ DOMAIN composed.responses[statusCode]
                         = DOMAIN author.responses[statusCode] \cup {"headers"}
                    /\ \A field \in DOMAIN author.responses[statusCode] \ {"headers"} :
                         composed.responses[statusCode][field]
                           = author.responses[statusCode][field]
               /\ composed["x-amazon-apigateway-integration"].type = "AWS_PROXY"
               /\ composed["x-amazon-apigateway-integration"].httpMethod = "POST"
       /\ \A k \in 1..Len(spec.paths) :
            LET before == spec.paths[k][2]
                after == result.value.paths[k][2]
            IN /\ DOMAIN after \ MethodKeys = DOMAIN before \ MethodKeys
               /\ \A field \in DOMAIN before \ MethodKeys : after[field] = before[field]

\* a composed document, CORS on, whose path items carry a shared field and define GET
\* and OPTIONS operations of two responses, one with headers
C11_Witness ==
  /\ result.status = "returned"
  /\ Has(options, "corsOptions")
  /\ \E k \in 1..Len(spec.paths) :
       /\ Has(spec.paths[k][2], "parameters")
       /\ Has(spec.paths[k][2], "get")
       /\ Has(spec.paths[k][2], "options")
       /\ spec.paths[k][2]["get"] = OperationWithHeaders
       /\ result.value.paths[k][2]["parameters"] = "shared"
       /\ result.value.paths[k][2]["get"].summary = "headers"

(***************************************************************************)
(* C12                                                                     *)
(***************************************************************************)

\* the (method, path) pairs of the document that two or more identifiers map to
Collisions(document, opts) ==
  {o \in OperationsOf(document) : Cardinality(EntriesFor(opts, o)) >= 2}

\* the identifier of the last operationLookup entry of this (method, path)
LaterIdentifier(opts, methodAndPath) ==
  opts.operationLookup[CHOOSE i \in EntriesFor(opts, methodAndPath) :
                         \A j \in EntriesFor(opts, methodAndPath) : j <= i][1]

\* C12: a (method, path) that two identifiers of operationLookup map to is
\* resolved to the identifier inserted last.  If that identifier has an
\* integrations entry, a composed document carries the operation with the
\* invocation reference of that entry's function and with the requirement of that
\* entry's authorizer (none when it names none, as the options give no default);
\* if it has none, composition fails, whatever entries the earlier identifier has,
\* and when every other operation is bound the error is the missing-integration
\* error of the later identifier.
C12_LastIdentifierWins ==
  result # NotCalled
    => \A o \in Collisions(spec, options) :
         LET later == LaterIdentifier(options, o)
         IN IF Has(options.integrations, later)
            THEN result.status = "returned"
                   => LET composed == OperationOf(result.value, o)
                          integration == options.integrations[later]
                      IN /\ composed["x-amazon-apigateway-integration"].uri
                              = "arn:aws:apigateway:lambda:path/functions/"
                                  \o integration.function \o "/invocations"
                         /\ composed.security
                              = RequirementOf(IF Has(integration, "authorizer")
                                              THEN integration.authorizer
                                              ELSE AuthorizerNone)
            ELSE /\ result.status = "thrown"
                 /\ Unlisted(spec, options) \cup Unintegrated(spec, options) = {o}
                      => result.message
                           = "Missing required integration for operation " \o later
                               \o " (" \o o.method \o " " \o o.path \o ")"

\* both identifiers of a (method, path) have an integration, with different
\* authorizers, and the composed operation carries those of the later one
C12_Witness ==
  /\ result.status = "returned"
  /\ \E o \in Collisions(spec, options) :
       \E i \in EntriesFor(options, o) :
         LET earlier == options.operationLookup[i][1]
             later == LaterIdentifier(options, o)
         IN /\ earlier # later
            /\ Has(options.integrations, earlier)
            /\ Has(options.integrations, later)
            /\ Has(options.integrations[later], "authorizer")
               # Has(options.integrations[earlier], "authorizer")
            /\ OperationOf(result.value, o).security
                 # RequirementOf(IF Has(options.integrations[earlier], "authorizer")
                                 THEN options.integrations[earlier].authorizer
                                 ELSE AuthorizerNone)

\* only the earlier identifier of a (method, path) has an integration, every other
\* operation is bound, and composition failed
C12_WitnessOnlyEarlier ==
  /\ result.status = "thrown"
  /\ \E o \in Collisions(spec, options) :
       /\ ~Has(options.integrations, LaterIdentifier(options, o))
       /\ Unintegrated(spec, options) = {o}
       /\ \E i \in EntriesFor(options, o) :
            Has(options.integrations, options.operationLookup[i][1])

====
